---- MODULE Spec2Model ----
(***************************************************************************)
(* AutoVolumeManager: the ducking decision engine (VolumeManager) with its *)
(* two threads, the daemon thread running monitor_loop and the UI thread   *)
(* (update_config -> force_duck / force_restore, on_closing -> stop).      *)
(* The functions of audio_utils (the session accessors, the fades) and     *)
(* duck_music / restore_music / check_priority_audio are also followed on  *)
(* their own, each under a specification of its own.                       *)
(*                                                                         *)
(* Units: time in tenths of a second (time.sleep(0.5) is 5), volumes and   *)
(* peak levels in hundredths (volume 0.15 is 15, threshold 0.01 is 1).     *)
(***************************************************************************)
EXTENDS Integers, Sequences, FiniteSets, TLC

\* ------------------------------------------------------------------ bounds
MaxTime == 20
MaxJitter == 1
MaxPeak == 2
MaxLen == 2

\* ------------------------------------------------------- program constants
TICK == 5
DEFAULT_PEAK_THRESHOLD == 1
DEFAULT_RESTORE_DELAY == 30
DEFAULT_VOLUME_DUCKED == 20
DEFAULT_VOLUME_NORMAL == 100
DEFAULT_FADE_OUT == 2
DEFAULT_FADE_IN == 4
STEPS == 20
CONFIG_VOLUME_NORMAL == 100
CONFIG_VOLUME_DUCKED == 15

Threads == {"loop", "ui"}

\* A list entry that is not a str (None in Python); "" is the empty str.
NONE == "<None>"

\* ---------------------------------------------------------- configuration
\* A Python value of the configuration dict, with its type.
Num(n) == [ty |-> "num", val |-> n]
List(s) == [ty |-> "list", val |-> s]
Other(s) == [ty |-> "other", val |-> s]

\* isinstance(v, (int, float)) and isinstance(v, list)
IsNum(v) == v.ty = "num"
IsList(v) == v.ty = "list"

\* dict.get(key, default)
Get(config, key, default) ==
    IF key \in DOMAIN config THEN config[key] ELSE default

BaseConfig ==
    [priority_apps |-> List(<<"game">>), music_apps |-> List(<<"music">>),
     volume_normal |-> Num(100), volume_ducked |-> Num(15),
     peak_threshold |-> Num(1), restore_delay |-> Num(10)]

\* What the Config Provider can return in this model.
Configs ==
    { BaseConfig,
      [BaseConfig EXCEPT !.restore_delay = Num(0)],
      [BaseConfig EXCEPT !.music_apps = List(<<>>)],
      [BaseConfig EXCEPT !.volume_ducked = Num(30), !.volume_normal = Num(80)],
      [BaseConfig EXCEPT !.restore_delay = Other("soon")] }

\* app and isinstance(app, str)
ValidName(app) == app # "" /\ app # NONE

\* [app for app in music_apps if app and isinstance(app, str)]
ValidApps(apps) == SelectSeq(apps, ValidName)

\* not apps or not isinstance(apps, list)
NoApps(apps) == ~IsList(apps) \/ apps.val = <<>>

\* ------------------------------------------------- check_priority_audio
\* >= in place of >
PeakCounts_NotStrict(peak, threshold) == peak >= threshold

\* peak > peak_threshold
PeakCounts(peak, threshold) == peak > threshold

\* for app_name in priority_apps: ... return True / return False
RECURSIVE AnyPeakAbove(_, _, _)
AnyPeakAbove(apps, pk, threshold) ==
    IF apps = <<>> THEN FALSE
    ELSE IF ~ValidName(Head(apps))
         THEN AnyPeakAbove(Tail(apps), pk, threshold)
         ELSE IF PeakCounts(pk[Head(apps)], threshold) THEN TRUE
              ELSE AnyPeakAbove(Tail(apps), pk, threshold)

\* peak_threshold after: if not isinstance(...) or peak_threshold <= 0: use 0.01
EffectiveThreshold(config) ==
    LET t == Get(config, "peak_threshold", Num(DEFAULT_PEAK_THRESHOLD))
    IN  IF ~IsNum(t) \/ t.val <= 0 THEN DEFAULT_PEAK_THRESHOLD ELSE t.val

check_priority_audio(config, pk) ==
    LET priority_apps == Get(config, "priority_apps", List(<<>>))
    IN  IF NoApps(priority_apps) THEN FALSE
        ELSE AnyPeakAbove(priority_apps.val, pk, EffectiveThreshold(config))

\* ------------------------------------------------ duck_music / restore_music
NoFade == [kind |-> "none", apps |-> <<>>, target |-> 0, duration |-> 0]

\* a volume outside [0, 1] or not a number is replaced by the default
EffectiveVolume(v, default) ==
    IF ~IsNum(v) \/ v.val < 0 \/ v.val > 100 THEN default ELSE v.val

\* a fade duration outside [0.1, 2.0] or not a number is replaced by the default
EffectiveFade(v, default) ==
    IF ~IsNum(v) \/ v.val < 1 \/ v.val > 20 THEN default ELSE v.val

duck_music(config) ==
    LET music_apps == Get(config, "music_apps", List(<<>>))
        volume_ducked == EffectiveVolume(
            Get(config, "volume_ducked", Num(DEFAULT_VOLUME_DUCKED)), DEFAULT_VOLUME_DUCKED)
        fade_out_duration == EffectiveFade(
            Get(config, "fade_out_duration", Num(DEFAULT_FADE_OUT)), DEFAULT_FADE_OUT)
    IN  IF NoApps(music_apps) \/ ValidApps(music_apps.val) = <<>> THEN NoFade
        ELSE [kind |-> "duck", apps |-> ValidApps(music_apps.val),
              target |-> volume_ducked, duration |-> fade_out_duration]

restore_music(config) ==
    LET music_apps == Get(config, "music_apps", List(<<>>))
        volume_normal == EffectiveVolume(
            Get(config, "volume_normal", Num(DEFAULT_VOLUME_NORMAL)), DEFAULT_VOLUME_NORMAL)
        fade_in_duration == EffectiveFade(
            Get(config, "fade_in_duration", Num(DEFAULT_FADE_IN)), DEFAULT_FADE_IN)
    IN  IF NoApps(music_apps) \/ ValidApps(music_apps.val) = <<>> THEN NoFade
        ELSE [kind |-> "restore", apps |-> ValidApps(music_apps.val),
              target |-> volume_normal, duration |-> fade_in_duration]

\* ------------------------------------------------------------------- state
VARIABLES
    is_ducked,            \* VolumeManager.is_ducked
    last_priority_time,   \* VolumeManager.last_priority_time
    running,              \* VolumeManager._running
    now,                  \* time.time()
    cfg,                  \* what get_config() returns at this moment
    pc,                   \* position of each thread
    restore_delay,        \* monitor_loop's local of that name
    heard,                \* this tick's sample had a valid priority app above threshold
    last_fade,            \* the latest fade_multiple_apps_volume request
    last_heard,           \* time of the latest such sample, -1 before the first
    stop_log,             \* per thread, what its stop() call has done so far
    stop_ducked,          \* the UI's stop() was called while running and ducked
    tick_fade,            \* what this tick's duck_music / restore_music call came to
    force_log,            \* the UI's latest force_duck / force_restore call
    tick_queries,         \* get_config() calls of the loop thread in this tick
    last_trigger,         \* the latest duck_music / restore_music call of the loop or of stop()
    fades,                \* the fade_worker threads started by the engine, when followed
    provider_ok,          \* whether get_config() returns (TRUE) or raises (FALSE)
    status,               \* the dict get_status() is building
    app_vars,             \* the UI's check boxes: per application, priority and music
    snapshot,             \* the dict get_config() is building from the check boxes
    probe,                \* arguments and result of a function applied on its own
    sessions,             \* the audio sessions of the OS: per application, present and volume
    many,                 \* a fade_multiple_apps_volume call: arguments, position, result
    worker,               \* a fade_worker thread: arguments, step, state, volume found
    setlog                \* the set_app_volume calls of that thread, in order

vars == <<is_ducked, last_priority_time, running, now, cfg, pc, restore_delay,
          heard, last_heard, last_fade, stop_log, stop_ducked, tick_fade, force_log,
          tick_queries, last_trigger, fades, provider_ok, status, app_vars, snapshot,
          probe, sessions, many, worker, setlog>>

manager == <<is_ducked, last_priority_time, running>>
ghosts == <<heard, last_heard, last_fade, stop_log, stop_ducked, tick_fade, force_log,
            tick_queries, last_trigger>>
core == <<is_ducked, last_priority_time, running, now, cfg, pc, restore_delay,
          heard, last_heard, last_fade, stop_log, stop_ducked, tick_fade, force_log,
          tick_queries, last_trigger>>
engine == <<core, fades, provider_ok>>

\* What the engine's actions leave alone: the state of a function applied on its
\* own, the audio sessions, the UI's own state, the Config Provider's health.
audio == <<sessions, many, worker, setlog>>
desk == <<status, app_vars, snapshot>>
aside == <<probe, audio, desk, provider_ok>>

\* No call into audio_utils is being followed.
NoAudio == sessions = <<>> /\ many = <<>> /\ worker = <<>> /\ setlog = <<>>

\* get_status() and the check boxes are not being followed.
NoDesk == status = <<>> /\ app_vars = <<>> /\ snapshot = <<>>

\* stop() not called: flag not cleared, is_ducked not tested, no fade decided;
\* `second` says the call was made after the other thread's stop() had returned.
NotCalled == [cleared |-> FALSE, saw |-> "-", fade |-> "-", second |-> FALSE]

\* No duck_music / restore_music call in this tick so far.
NoCall == [kind |-> "-", outcome |-> "-"]

\* force_duck / force_restore not called yet.
NotForced == [op |-> "-", saw |-> "-", fade |-> "-"]

\* VolumeManager(get_config) constructed at time `start`, the provider returning config.
Constructed(start, config) ==
    /\ is_ducked = FALSE
    /\ now = start
    /\ last_priority_time = now
    /\ running = FALSE
    /\ cfg = config
    /\ pc = [t \in Threads |-> IF t = "loop" THEN "start" ELSE "idle"]
    /\ restore_delay = Num(DEFAULT_RESTORE_DELAY)
    /\ heard = FALSE
    /\ last_heard = -1
    /\ last_fade = NoFade
    /\ stop_log = [t \in Threads |-> NotCalled]
    /\ stop_ducked = FALSE
    /\ tick_fade = NoCall
    /\ force_log = NotForced
    /\ tick_queries = 0
    /\ last_trigger = "-"
    /\ fades = <<>>
    /\ provider_ok = TRUE

InitEngine == \E t \in 0..1 : \E config \in Configs : Constructed(t, config)

Init ==
    /\ InitEngine
    /\ probe = <<>>
    /\ NoAudio
    /\ NoDesk

Goto(t, label) == pc' = [pc EXCEPT ![t] = label]

\* Volumes of audio sessions are in 1/STEPS of a hundredth (1.0 is 100 * STEPS), so
\* that the steps of a fade between two hundredths are exact.
FULL == 100 * STEPS

\* get_app_current_volume: the session's volume, 0.0 if not found or on error
get_app_current_volume(ss, app) ==
    IF ss[app].present THEN ss[app].volume ELSE 0

\* duck_music: start_volume = 1.0; if current_vol > 0: start_volume = current_vol
duck_start_volume(current_vol) == IF current_vol > 0 THEN current_vol ELSE FULL

\* restore_music: start_volume = 0.2; if current_vol >= 0: start_volume = current_vol
restore_start_volume(current_vol) ==
    IF current_vol >= 0 THEN current_vol ELSE DEFAULT_VOLUME_DUCKED * STEPS

\* The start volume of a request's fades, probed on its first application.
StartVolume(request, ss) ==
    LET current_vol == get_app_current_volume(ss, request.apps[1])
    IN  IF request.kind = "duck" THEN duck_start_volume(current_vol)
        ELSE restore_start_volume(current_vol)

\* The audio sessions are followed: the fades of the engine run as threads.
Followed == sessions # <<>>

\* every thread started from the current volume of its own application
ThreadStart_Own(request, ss, k) == get_app_current_volume(ss, request.apps[k])

\* fade_app_volume(app_name, start_volume, ...): the one start_volume for every app
ThreadStart(request, ss, k) == StartVolume(request, ss)

\* fade_multiple_apps_volume: one fade_worker thread per application, at its first
\* step i; `set` is the step of its last accepted set_app_volume, `failed` says
\* that one was refused, `latest` marks the thread whose set_app_volume was the
\* last one accepted by the session.
Started(request, ss) ==
    [k \in 1..Len(request.apps) |->
        [app |-> request.apps[k], kind |-> request.kind, start |-> ThreadStart(request, ss, k),
         end |-> request.target, i |-> 0, set |-> -1, state |-> "run",
         failed |-> FALSE, latest |-> FALSE]]

\* A fade request reaches fade_multiple_apps_volume unless the music list is empty.
Trigger(request) ==
    /\ last_fade' = IF request.kind = "none" THEN last_fade ELSE request
    /\ fades' = IF Followed /\ request.kind # "none"
                THEN fades \o Started(request, sessions) ELSE fades

\* What becomes of a fade request: nothing is asked with no valid music app;
\* otherwise the fades either set volumes or fail at their first set_app_volume
\* (every application absent, or every call refused).
FadeOutcomes(request) ==
    IF request.kind = "none" THEN {"nolist"} ELSE {"applied", "failed"}

\* Whether a sample of peak levels holds priority activity under `config`: some
\* entry of the priority list that is a non-empty str peaks strictly above the
\* threshold in force.
Activity(config, pk) ==
    LET apps == Get(config, "priority_apps", List(<<>>))
    IN  /\ IsList(apps)
        /\ \E i \in 1..Len(apps.val) :
              /\ apps.val[i] # "" /\ apps.val[i] # NONE
              /\ pk[apps.val[i]] > EffectiveThreshold(config)

PeakApps == {"game"}
Samples == [PeakApps -> 0..MaxPeak]

\* stop() without its first statement
StopEntry_NoClear == "stop_check"

\* stop() begins with self._running = False
StopEntry == "stop"

\* Where an exception raised on thread t takes it. In the loop thread, inside the
\* while: except Exception, then finally: self.stop(). Inside that stop() the
\* exception leaves finally and monitor_loop, and the thread dies. In the UI
\* thread the callback is abandoned and the event loop goes on.
Raised_In(t) ==
    IF t = "ui" THEN "idle"
    ELSE IF pc[t] = "stop_restore" THEN "crashed" ELSE StopEntry

\* duck_music / restore_music left at their first line by an exception
NoTrigger == UNCHANGED <<last_fade, fades>>

\* ------------------------------------------------------------ monitor_loop
\* initialize_com(); self._running = True
LoopStart ==
    /\ pc["loop"] = "start"
    /\ running' = TRUE
    /\ Goto("loop", "while")
    /\ UNCHANGED <<aside, fades>>
    /\ UNCHANGED <<is_ducked, last_priority_time, now, cfg, restore_delay, ghosts>>

\* while self._running:  ...  finally: self.stop()
LoopWhile ==
    /\ pc["loop"] = "while"
    /\ Goto("loop", IF running THEN "tick" ELSE StopEntry)
    /\ UNCHANGED <<aside, fades>>
    /\ UNCHANGED <<manager, now, cfg, restore_delay, ghosts>>

\* config = self.get_config(); restore_delay = config.get("restore_delay", 3.0)
LoopConfig ==
    /\ pc["loop"] = "tick"
    /\ tick_queries' = 1
    /\ IF provider_ok
       THEN /\ restore_delay' = Get(cfg, "restore_delay", Num(DEFAULT_RESTORE_DELAY))
            /\ Goto("loop", "check")
       ELSE /\ UNCHANGED restore_delay
            /\ Goto("loop", Raised_In("loop"))
    /\ UNCHANGED <<aside, fades>>
    /\ UNCHANGED <<manager, now, cfg, heard, last_heard, last_fade, stop_log, stop_ducked,
                   tick_fade, force_log, last_trigger>>

\* if self.check_priority_audio():
LoopCheck ==
    /\ pc["loop"] = "check"
    /\ tick_queries' = tick_queries + 1
    /\ IF provider_ok
       THEN \E pk \in Samples :
               /\ heard' = Activity(cfg, pk)
               /\ last_heard' = IF Activity(cfg, pk) THEN now ELSE last_heard
               /\ Goto("loop", IF check_priority_audio(cfg, pk) THEN "active" ELSE "quiet")
       ELSE /\ UNCHANGED <<heard, last_heard>>
            /\ Goto("loop", Raised_In("loop"))
    /\ UNCHANGED <<aside, fades>>
    /\ UNCHANGED <<manager, now, cfg, restore_delay, last_fade, stop_log, stop_ducked,
                   tick_fade, force_log, last_trigger>>

\* the test left out: duck on every active tick
MustDuck_Always(ducked) == TRUE

\* if not self.is_ducked:
MustDuck(ducked) == ~ducked

\* self.last_priority_time = time.time(); if not self.is_ducked:
LoopActive ==
    /\ pc["loop"] = "active"
    /\ last_priority_time' = now
    /\ Goto("loop", IF MustDuck(is_ducked) THEN "duck" ELSE "sleep")
    /\ UNCHANGED <<aside, fades>>
    /\ UNCHANGED <<is_ducked, running, now, cfg, restore_delay, ghosts>>

\* self.duck_music()
LoopDuck ==
    /\ pc["loop"] = "duck"
    /\ tick_queries' = tick_queries + 1
    /\ IF provider_ok
       THEN /\ Trigger(duck_music(cfg))
            /\ last_trigger' = "duck"
            /\ \E o \in FadeOutcomes(duck_music(cfg)) :
                  tick_fade' = [kind |-> "duck", outcome |-> o]
            /\ Goto("loop", "set_ducked")
       ELSE /\ NoTrigger
            /\ UNCHANGED <<last_trigger, tick_fade>>
            /\ Goto("loop", Raised_In("loop"))
    /\ UNCHANGED aside
    /\ UNCHANGED <<manager, now, cfg, restore_delay, heard, last_heard, stop_log, stop_ducked,
                   force_log>>

\* the assignment left out
DuckedAfterDuck_Omitted == is_ducked

DuckedAfterDuck == TRUE

\* self.is_ducked = True
LoopSetDucked ==
    /\ pc["loop"] = "set_ducked"
    /\ is_ducked' = DuckedAfterDuck
    /\ Goto("loop", "sleep")
    /\ UNCHANGED <<aside, fades>>
    /\ UNCHANGED <<last_priority_time, running, now, cfg, restore_delay, ghosts>>

\* the configured delay ignored in favour of the built-in default
RestoreDue_DefaultDelay(ducked, t, last, delay) ==
    ducked /\ t - last > DEFAULT_RESTORE_DELAY

\* >= in place of >
RestoreDue_NotStrict(ducked, t, last, delay) == ducked /\ t - last >= delay

\* self.is_ducked and (time.time() - self.last_priority_time > restore_delay)
RestoreDue(ducked, t, last, delay) == ducked /\ t - last > delay

\* float > restore_delay raises TypeError when restore_delay is not a number;
\* `and` evaluates the comparison only when is_ducked is true
QuietRaises(ducked, delay) == ducked /\ ~IsNum(delay)

\* else: if self.is_ducked and (...):   an exception leaves the while for
\* except Exception: (print), finally: self.stop()
LoopQuiet ==
    /\ pc["loop"] = "quiet"
    /\ Goto("loop", IF QuietRaises(is_ducked, restore_delay) THEN Raised_In("loop")
                    ELSE IF RestoreDue(is_ducked, now, last_priority_time, restore_delay.val)
                         THEN "restore" ELSE "sleep")
    /\ UNCHANGED <<aside, fades>>
    /\ UNCHANGED <<manager, now, cfg, restore_delay, ghosts>>

\* self.restore_music()
LoopRestore ==
    /\ pc["loop"] = "restore"
    /\ tick_queries' = tick_queries + 1
    /\ IF provider_ok
       THEN /\ Trigger(restore_music(cfg))
            /\ last_trigger' = "restore"
            /\ \E o \in FadeOutcomes(restore_music(cfg)) :
                  tick_fade' = [kind |-> "restore", outcome |-> o]
            /\ Goto("loop", "set_restored")
       ELSE /\ NoTrigger
            /\ UNCHANGED <<last_trigger, tick_fade>>
            /\ Goto("loop", Raised_In("loop"))
    /\ UNCHANGED aside
    /\ UNCHANGED <<manager, now, cfg, restore_delay, heard, last_heard, stop_log, stop_ducked,
                   force_log>>

\* the assignment left out
DuckedAfterRestore_Kept == is_ducked

DuckedAfterRestore == FALSE

\* self.is_ducked = False
LoopSetRestored ==
    /\ pc["loop"] = "set_restored"
    /\ is_ducked' = DuckedAfterRestore
    /\ Goto("loop", "sleep")
    /\ UNCHANGED <<aside, fades>>
    /\ UNCHANGED <<last_priority_time, running, now, cfg, restore_delay, ghosts>>

\* time.sleep(0.5): the next tick starts at least TICK later
LoopSleep ==
    /\ pc["loop"] = "sleep"
    /\ \E d \in TICK..(TICK + MaxJitter) :
          /\ now + d <= MaxTime
          /\ now' = now + d
    /\ heard' = FALSE
    /\ tick_fade' = NoCall
    /\ tick_queries' = 0
    /\ Goto("loop", "while")
    /\ UNCHANGED <<aside, fades>>
    /\ UNCHANGED <<manager, cfg, restore_delay, last_heard, last_fade, stop_log, stop_ducked,
                   force_log, last_trigger>>

\* -------------------------------------------------------------------- stop
StopReturn(t) == IF t = "loop" THEN "done" ELSE "closed"

\* The thread that is not t.
OtherThread(t) == IF t = "loop" THEN "ui" ELSE "loop"

\* The stop() called on thread t has returned.
Returned_Stop(t) == pc[t] = StopReturn(t)

\* the flag left as it is
RunningAfterStop_Kept == running

RunningAfterStop == FALSE

\* self._running = False
StopClear(t) ==
    /\ pc[t] = "stop"
    /\ running' = RunningAfterStop
    /\ stop_log' = [stop_log EXCEPT ![t].cleared = TRUE, ![t].second = Returned_Stop(OtherThread(t))]
    /\ Goto(t, "stop_check")
    /\ UNCHANGED <<aside, fades>>
    /\ UNCHANGED <<is_ducked, last_priority_time, now, cfg, restore_delay, heard,
                   last_heard, last_fade, stop_ducked, tick_fade, force_log, tick_queries,
                   last_trigger>>

\* the restore made unconditional
StopMustRestore_Always(ducked) == TRUE

\* the test of stop(): if self.is_ducked:
StopMustRestore(ducked) == ducked

StopCheck(t) ==
    /\ pc[t] = "stop_check"
    /\ stop_log' = [stop_log EXCEPT ![t].saw = IF is_ducked THEN "ducked" ELSE "normal"]
    /\ Goto(t, IF StopMustRestore(is_ducked) THEN "stop_restore" ELSE StopReturn(t))
    /\ UNCHANGED <<aside, fades>>
    /\ UNCHANGED <<manager, now, cfg, restore_delay, heard, last_heard, last_fade, stop_ducked,
                   tick_fade, force_log, tick_queries, last_trigger>>

\* self.restore_music()
StopRestore(t) ==
    /\ pc[t] = "stop_restore"
    /\ IF provider_ok
       THEN /\ Trigger(restore_music(cfg))
            /\ last_trigger' = "restore"
            /\ stop_log' = [stop_log EXCEPT ![t].fade =
                               IF restore_music(cfg).kind = "none" THEN "nofade" ELSE "restored"]
            /\ Goto(t, "stop_set")
       ELSE /\ NoTrigger
            /\ UNCHANGED <<last_trigger, stop_log>>
            /\ Goto(t, Raised_In(t))
    /\ UNCHANGED aside
    /\ UNCHANGED <<manager, now, cfg, restore_delay, heard, last_heard, stop_ducked,
                   tick_fade, force_log, tick_queries>>

\* self.is_ducked = False
StopSet(t) ==
    /\ pc[t] = "stop_set"
    /\ is_ducked' = FALSE
    /\ Goto(t, StopReturn(t))
    /\ UNCHANGED <<aside, fades>>
    /\ UNCHANGED <<last_priority_time, running, now, cfg, restore_delay, ghosts>>

Stop(t) == StopClear(t) \/ StopCheck(t) \/ StopRestore(t) \/ StopSet(t)

\* --------------------------------------------------------------- UI thread
\* on_closing: self.volume_manager.stop()
UIClose ==
    /\ pc["ui"] = "idle"
    /\ stop_ducked' = (running /\ is_ducked)
    /\ Goto("ui", StopEntry)
    /\ UNCHANGED <<aside, fades>>
    /\ UNCHANGED <<manager, now, cfg, restore_delay, heard, last_heard, last_fade, stop_log,
                   tick_fade, force_log, tick_queries, last_trigger>>

\* update_config: config = self.get_config(); if self.volume_manager.is_ducked:
UIUpdateConfig ==
    /\ pc["ui"] = "idle"
    /\ \E c \in Configs : cfg' = c
    /\ Goto("ui", IF is_ducked THEN "force_duck" ELSE "force_restore")
    /\ UNCHANGED <<aside, fades>>
    /\ UNCHANGED <<manager, now, restore_delay, ghosts>>

\* the test left out: duck whatever the state
ForceDuckApplies_Always(ducked) == TRUE

\* force_duck: if self.is_ducked:
ForceDuckApplies(ducked) == ducked

\* the test of force_duck inverted into force_restore
ForceRestoreApplies_Inverted(ducked) == ducked

\* force_restore: if not self.is_ducked:
ForceRestoreApplies(ducked) == ~ducked

\* is_ducked as a call finds it
Saw(ducked) == IF ducked THEN "ducked" ELSE "normal"

ForceDuckCheck ==
    /\ pc["ui"] = "force_duck"
    /\ force_log' = [op |-> "force_duck", saw |-> Saw(is_ducked), fade |-> "-"]
    /\ Goto("ui", IF ForceDuckApplies(is_ducked) THEN "force_duck_fade" ELSE "idle")
    /\ UNCHANGED <<aside, fades>>
    /\ UNCHANGED <<manager, now, cfg, restore_delay, heard, last_heard, last_fade,
                   stop_log, stop_ducked, tick_fade, tick_queries, last_trigger>>

\* force_duck: self.duck_music()
ForceDuckFade ==
    /\ pc["ui"] = "force_duck_fade"
    /\ IF provider_ok
       THEN /\ Trigger(duck_music(cfg))
            /\ force_log' = [force_log EXCEPT !.fade = duck_music(cfg).kind]
       ELSE /\ NoTrigger
            /\ UNCHANGED force_log
    /\ Goto("ui", "idle")
    /\ UNCHANGED aside
    /\ UNCHANGED <<manager, now, cfg, restore_delay, heard, last_heard, stop_log, stop_ducked,
                   tick_fade, tick_queries, last_trigger>>

\* force_restore: if not self.is_ducked:
ForceRestoreCheck ==
    /\ pc["ui"] = "force_restore"
    /\ force_log' = [op |-> "force_restore", saw |-> Saw(is_ducked), fade |-> "-"]
    /\ Goto("ui", IF ForceRestoreApplies(is_ducked) THEN "force_restore_fade" ELSE "idle")
    /\ UNCHANGED <<aside, fades>>
    /\ UNCHANGED <<manager, now, cfg, restore_delay, heard, last_heard, last_fade,
                   stop_log, stop_ducked, tick_fade, tick_queries, last_trigger>>

\* force_restore: self.restore_music()
ForceRestoreFade ==
    /\ pc["ui"] = "force_restore_fade"
    /\ IF provider_ok
       THEN /\ Trigger(restore_music(cfg))
            /\ force_log' = [force_log EXCEPT !.fade = restore_music(cfg).kind]
       ELSE /\ NoTrigger
            /\ UNCHANGED force_log
    /\ Goto("ui", "idle")
    /\ UNCHANGED aside
    /\ UNCHANGED <<manager, now, cfg, restore_delay, heard, last_heard, stop_log, stop_ducked,
                   tick_fade, tick_queries, last_trigger>>

Tick ==
    \/ LoopConfig \/ LoopCheck \/ LoopActive \/ LoopDuck \/ LoopSetDucked
    \/ LoopQuiet \/ LoopRestore \/ LoopSetRestored \/ LoopSleep

Next ==
    \/ LoopStart
    \/ LoopWhile
    \/ Tick
    \/ Stop("loop")
    \/ UIClose
    \/ UIUpdateConfig
    \/ ForceDuckCheck
    \/ ForceDuckFade
    \/ ForceRestoreCheck
    \/ ForceRestoreFade
    \/ Stop("ui")

Spec == Init /\ [][Next]_vars

\* --------------------------------------------- the Config Provider failing
\* The callable handed to VolumeManager starts or stops raising, at any moment.
ProviderFlip ==
    /\ provider_ok' = ~provider_ok
    /\ UNCHANGED <<core, fades, probe, audio, desk>>

\* The monitor thread alone, with a provider that can fail.
NextFail ==
    \/ LoopStart
    \/ LoopWhile
    \/ Tick
    \/ Stop("loop")
    \/ ProviderFlip

SpecFail == Init /\ [][NextFail]_vars

\* -------------------------------------------------------------- get_status
\* get_status() called by an observer on another thread while the monitor thread
\* runs. The dict display reads the attributes one after the other, without a
\* lock; `at` is the read to come.
NoStatus ==
    [at |-> "idle", is_ducked |-> FALSE, is_running |-> FALSE, last_priority_time |-> 0,
     clock |-> 0, time_since_last_priority |-> 0]

InitStatus ==
    /\ InitEngine
    /\ probe = <<>>
    /\ NoAudio
    /\ status = NoStatus
    /\ app_vars = <<>> /\ snapshot = <<>>

StatusFrame == UNCHANGED <<engine, probe, audio, app_vars, snapshot>>

\* the observer calls get_status()
StatusCall ==
    /\ status.at \in {"idle", "returned"}
    /\ status' = [NoStatus EXCEPT !.at = "is_ducked"]
    /\ StatusFrame

\* "is_ducked": self.is_ducked
StatusDucked ==
    /\ status.at = "is_ducked"
    /\ status' = [status EXCEPT !.is_ducked = is_ducked, !.at = "is_running"]
    /\ StatusFrame

\* "is_running": self._running
StatusRunning ==
    /\ status.at = "is_running"
    /\ status' = [status EXCEPT !.is_running = running, !.at = "last_priority_time"]
    /\ StatusFrame

\* "last_priority_time": self.last_priority_time
StatusLast ==
    /\ status.at = "last_priority_time"
    /\ status' = [status EXCEPT !.last_priority_time = last_priority_time, !.at = "clock"]
    /\ StatusFrame

\* time.time(), the left operand, is evaluated first
StatusClock ==
    /\ status.at = "clock"
    /\ status' = [status EXCEPT !.clock = now, !.at = "since"]
    /\ StatusFrame

\* "time_since_last_priority": time.time() - self.last_priority_time; return
StatusSince ==
    /\ status.at = "since"
    /\ status' = [status EXCEPT !.time_since_last_priority = status.clock - last_priority_time,
                                !.at = "returned"]
    /\ StatusFrame

get_status ==
    StatusCall \/ StatusDucked \/ StatusRunning \/ StatusLast \/ StatusClock \/ StatusSince

NextStatus ==
    \/ LoopStart
    \/ LoopWhile
    \/ Tick
    \/ Stop("loop")
    \/ get_status

SpecStatus == InitStatus /\ [][NextStatus]_vars

\* ------------------------------------- check_priority_audio on its own
\* The engine left as constructed while a function is applied on its own.
Parked == Constructed(0, BaseConfig)

CheckApps == {"game", "voice"}
CheckSamples == [CheckApps -> 0..MaxPeak]

\* Entries of a priority list: names of sessions, the empty str, a non-str.
Entries == CheckApps \cup {"", NONE}
Lists == UNION {[1..n -> Entries] : n \in 0..MaxLen}

\* Configurations with the two keys check_priority_audio reads: present with a
\* value of the right type or not, or missing.
CheckConfigs ==
    LET withApps == {[priority_apps |-> List(l)] : l \in Lists}
                    \cup {[priority_apps |-> Other("game")]}
        withThreshold == {[peak_threshold |-> Num(t)] : t \in (-1)..MaxPeak}
                         \cup {[peak_threshold |-> Other("low")]}
        Join(a, b) == [k \in DOMAIN a \cup DOMAIN b |->
                          IF k \in DOMAIN a THEN a[k] ELSE b[k]]
    IN  withApps \cup withThreshold \cup {Join(a, b) : a \in withApps, b \in withThreshold}

InitCheck ==
    /\ Parked
    /\ NoDesk
    /\ NoAudio
    /\ probe \in [config : CheckConfigs, pk : CheckSamples, result : {FALSE}, done : {FALSE}]

ApplyCheck ==
    /\ ~probe.done
    /\ probe' = [probe EXCEPT !.result = check_priority_audio(probe.config, probe.pk),
                              !.done = TRUE]
    /\ UNCHANGED <<engine, desk, audio>>

NextCheck == ApplyCheck

SpecCheck == InitCheck /\ [][NextCheck]_vars

\* ------------------------------------ duck_music / restore_music on their own
\* The union of two configuration dicts with distinct keys.
Merge(a, b) == [k \in DOMAIN a \cup DOMAIN b |-> IF k \in DOMAIN a THEN a[k] ELSE b[k]]

\* The empty dict.
Empty == [k \in {} |-> Num(0)]

\* A key missing, or present with one of the values.
Field(key, values) == {Empty} \cup {[k \in {key} |-> v] : v \in values}

\* Volumes a configuration can hold: below, in and above [0, 1], or not a number.
VolumeValues == {Num(-10), Num(0), Num(15), Num(100), Num(150), Other("loud")}

\* Fade durations: below, in and above [0.1, 2.0], or not a number.
FadeValues == {Num(0), Num(3), Num(30), Other("slow")}

\* Music lists: empty, valid, with an entry to skip, without a valid entry, not a list.
MusicValues == {List(<<>>), List(<<"music">>), List(<<"", "music">>), List(<<NONE>>),
                Other("music")}

\* Configurations with the keys duck_music reads (for restore_music the same
\* values are put under volume_normal and fade_in_duration).
VolumeConfigs(volume_key, fade_key) ==
    {Merge(Merge(a, b), c) : a \in Field("music_apps", MusicValues),
                             b \in Field(volume_key, VolumeValues),
                             c \in Field(fade_key, FadeValues)}

InitVolume ==
    /\ Parked
    /\ NoDesk
    /\ NoAudio
    /\ probe \in [op : {"duck_music"}, config : VolumeConfigs("volume_ducked", "fade_out_duration"),
                   result : {NoFade}, done : {FALSE}]
          \cup [op : {"restore_music"}, config : VolumeConfigs("volume_normal", "fade_in_duration"),
                   result : {NoFade}, done : {FALSE}]

ApplyDuck ==
    /\ ~probe.done /\ probe.op = "duck_music"
    /\ probe' = [probe EXCEPT !.result = duck_music(probe.config), !.done = TRUE]
    /\ UNCHANGED <<engine, desk, audio>>

ApplyRestore ==
    /\ ~probe.done /\ probe.op = "restore_music"
    /\ probe' = [probe EXCEPT !.result = restore_music(probe.config), !.done = TRUE]
    /\ UNCHANGED <<engine, desk, audio>>

NextVolume == ApplyDuck \/ ApplyRestore

SpecVolume == InitVolume /\ [][NextVolume]_vars

\* ------------------------------------------------------------- audio_utils
MusicApps == {"music", "player"}

\* A session: absent, or present at volume 0.0 or 0.5.
SessionStates ==
    {[present |-> FALSE, volume |-> 0], [present |-> TRUE, volume |-> 0],
     [present |-> TRUE, volume |-> FULL \div 2]}

NameLists == UNION {[1..n -> MusicApps] : n \in 0..MaxLen}

\* fade_multiple_apps_volume(app_names, start_volume, end_volume, duration)
InitMany ==
    /\ Parked
    /\ NoDesk
    /\ probe = <<>> /\ worker = <<>> /\ setlog = <<>>
    /\ sessions \in [MusicApps -> SessionStates]
    /\ many \in [names : NameLists, start : {FULL}, end : {15 * STEPS, 20 * STEPS},
                  idx : {1}, success_count : {0}, started : {<<>>}, returned : {FALSE}]

\* if current_vol >= 0:  # App exists
AppExists(current_vol) == current_vol >= 0

\* one turn of: for app_name in app_names
ManyNext ==
    /\ ~many.returned /\ many.idx <= Len(many.names)
    /\ LET app_name == many.names[many.idx]
           current_vol == get_app_current_volume(sessions, app_name)
       IN  many' = IF AppExists(current_vol)
                   THEN [many EXCEPT !.idx = @ + 1, !.success_count = @ + 1,
                             !.started = Append(@, [app |-> app_name, start |-> many.start,
                                                    end |-> many.end])]
                   ELSE [many EXCEPT !.idx = @ + 1]
    /\ UNCHANGED <<engine, desk, probe, sessions, worker, setlog>>

\* return success_count
ManyReturn ==
    /\ ~many.returned /\ many.idx > Len(many.names)
    /\ many' = [many EXCEPT !.returned = TRUE]
    /\ UNCHANGED <<engine, desk, probe, sessions, worker, setlog>>

NextMany == ManyNext \/ ManyReturn

SpecMany == InitMany /\ [][NextMany]_vars

\* ------------------------------------- the check boxes and get_config
\* The applications shown, in the order of the app_vars dict.
BoxOrder == <<"game", "music">>
BoxApps == {BoxOrder[k] : k \in 1..Len(BoxOrder)}

\* _validate_config: apps in both lists are removed from music_apps
validated_music_apps(priority_apps, music_apps) == music_apps \ (priority_apps \cap music_apps)

\* var_p = BooleanVar(app in priority_apps); var_m = BooleanVar(app in music_apps)
BoxesOf(priority_apps, music_apps) ==
    [a \in BoxApps |-> [p |-> a \in priority_apps, m |-> a \in music_apps]]

\* get_config() not called yet
NoSnapshot == [at |-> "idle", k |-> 0, priority_apps |-> {}, music_apps |-> {}]

\* The window drawn from a loaded configuration, from any two lists in the file.
InitBoxes ==
    /\ Parked
    /\ NoAudio
    /\ probe = <<>>
    /\ status = <<>>
    /\ \E priority_apps \in SUBSET BoxApps : \E music_apps \in SUBSET BoxApps :
          app_vars = BoxesOf(priority_apps, validated_music_apps(priority_apps, music_apps))
    /\ snapshot = NoSnapshot

\* _handle_checkbox_change(app, checkbox_type) on the pair of variables of app,
\* without its update_config()
handle_checkbox_change(v, checkbox_type) ==
    IF checkbox_type = "priority" /\ v.p THEN [v EXCEPT !.m = FALSE]
    ELSE IF checkbox_type = "music" /\ v.m THEN [v EXCEPT !.p = FALSE]
    ELSE v

\* A click on a check box: the widget inverts its variable, then runs its command.
\* One event of the UI thread.
Toggled(v, checkbox_type) ==
    IF checkbox_type = "priority" THEN [v EXCEPT !.p = ~@] ELSE [v EXCEPT !.m = ~@]

Click ==
    /\ \E a \in BoxApps : \E checkbox_type \in {"priority", "music"} :
          app_vars' = [app_vars EXCEPT
                          ![a] = handle_checkbox_change(Toggled(@, checkbox_type), checkbox_type)]
    /\ UNCHANGED <<engine, probe, audio, status, snapshot>>

\* get_config() called by the monitor thread: app_vars_copy = dict(self.app_vars)
ConfigCall ==
    /\ snapshot.at \in {"idle", "returned"}
    /\ snapshot' = [NoSnapshot EXCEPT !.at = "priority", !.k = 1]
    /\ UNCHANGED <<engine, probe, audio, status, app_vars>>

\* priority = [a for a, (p, _) in app_vars_copy.items() if p.get()], one p.get()
ReadPriority ==
    /\ snapshot.at = "priority"
    /\ LET a == BoxOrder[snapshot.k]
           last == snapshot.k = Len(BoxOrder)
       IN  snapshot' = [snapshot EXCEPT
                           !.priority_apps = IF app_vars[a].p THEN @ \cup {a} ELSE @,
                           !.k = IF last THEN 1 ELSE @ + 1,
                           !.at = IF last THEN "music" ELSE @]
    /\ UNCHANGED <<engine, probe, audio, status, app_vars>>

\* music = [a for a, (_, m) in app_vars_copy.items() if m.get()], one m.get();
\* after the last one the dict is returned
ReadMusic ==
    /\ snapshot.at = "music"
    /\ LET a == BoxOrder[snapshot.k]
           last == snapshot.k = Len(BoxOrder)
       IN  snapshot' = [snapshot EXCEPT
                           !.music_apps = IF app_vars[a].m THEN @ \cup {a} ELSE @,
                           !.k = IF last THEN 0 ELSE @ + 1,
                           !.at = IF last THEN "returned" ELSE @]
    /\ UNCHANGED <<engine, probe, audio, status, app_vars>>

NextBoxes == Click \/ ConfigCall \/ ReadPriority \/ ReadMusic

SpecBoxes == InitBoxes /\ [][NextBoxes]_vars

\* ------------------------- the start volume of duck_music / restore_music
\* Music lists whose first valid entry is one application or the other, or none.
StartLists == {List(<<"music">>), List(<<"player", "music">>), List(<<"", "music">>),
               List(<<>>)}

\* duck_music() or restore_music() called on a configuration, the sessions of the
\* music applications being absent, silent or at half volume.
InitStart ==
    /\ Parked
    /\ NoDesk
    /\ many = <<>> /\ worker = <<>> /\ setlog = <<>>
    /\ sessions \in [MusicApps -> SessionStates]
    /\ probe \in [op : {"duck_music", "restore_music"},
                   config : {[music_apps |-> l] : l \in StartLists},
                   result : {NoFade}, start : {0}, done : {FALSE}]

\* The call, up to its fade_multiple_apps_volume(valid_apps, start_volume, ...)
ApplyStart ==
    /\ ~probe.done
    /\ LET request == IF probe.op = "duck_music" THEN duck_music(probe.config)
                      ELSE restore_music(probe.config)
       IN  probe' = [probe EXCEPT !.result = request,
                                  !.start = IF request.kind = "none" THEN 0
                                            ELSE StartVolume(request, sessions),
                                  !.done = TRUE]
    /\ UNCHANGED <<engine, desk, audio>>

NextStart == ApplyStart

SpecStart == InitStart /\ [][NextStart]_vars

\* Volumes handed to fade_app_volume, in hundredths: in range and out of range.
FadeVolumes == {-10, 0, 15, 100, 150}

\* fade_app_volume(app_name, start_volume, end_volume, duration): the thread starts
InitFade ==
    /\ Parked
    /\ NoDesk
    /\ probe = <<>> /\ many = <<>>
    /\ sessions \in [{"music"} -> SessionStates]
    /\ worker \in [app : {"music"}, start : FadeVolumes, end : FadeVolumes,
                    i : {0}, state : {"run"}, before : {0, FULL \div 2}]
    /\ worker.before = sessions[worker.app].volume
    /\ setlog = <<>>

\* the bounds left out
Clamp_None(v) == v

\* max(0.0, min(1.0, current_volume))
Clamp(v) == IF v < 0 THEN 0 ELSE IF v > FULL THEN FULL ELSE v

\* current_volume = start_volume + (volume_step * i), clamped
StepVolume(start, end, i) == Clamp(start * STEPS + (end - start) * i)

\* set_app_volume succeeds only on a present session, and the OS may refuse it
SetOutcomes(ss, app) == IF ss[app].present THEN {TRUE, FALSE} ELSE {FALSE}

\* one turn more: range(steps + 2)
AfterSet_OneMore(ok, i) == IF ~ok THEN "done" ELSE IF i <= STEPS THEN "run" ELSE "done"

\* the loop going on after a refused set_app_volume
AfterSet_NoBreak(ok, i) == IF i < STEPS THEN "run" ELSE "done"

\* if set_app_volume(...): (sleep, next i) else: break; the last i is steps
AfterSet(ok, i) == IF ~ok THEN "done" ELSE IF i < STEPS THEN "run" ELSE "done"

\* one turn of: for i in range(steps + 1)
WorkerStep ==
    /\ worker.state = "run"
    /\ LET v == StepVolume(worker.start, worker.end, worker.i)
       IN  \E ok \in SetOutcomes(sessions, worker.app) :
              /\ setlog' = Append(setlog, [i |-> worker.i, volume |-> v, ok |-> ok])
              /\ sessions' = IF ok THEN [sessions EXCEPT ![worker.app].volume = v]
                             ELSE sessions
              /\ worker' = [worker EXCEPT !.i = @ + 1, !.state = AfterSet(ok, worker.i)]
    /\ UNCHANGED <<engine, desk, probe, many>>

NextFade == WorkerStep

SpecFade == InitFade /\ [][NextFade]_vars

\* ------------------------------------ the loop with its fades followed
\* The first tick is late enough for two ticks only.
MixStart == MaxTime - TICK - MaxJitter

\* A configuration with a short restore delay and the longest fade out accepted.
MixConfig ==
    [priority_apps |-> List(<<"game">>), music_apps |-> List(<<"music">>),
     volume_normal |-> Num(CONFIG_VOLUME_NORMAL), volume_ducked |-> Num(CONFIG_VOLUME_DUCKED),
     peak_threshold |-> Num(1), restore_delay |-> Num(1), fade_out_duration |-> Num(20)]

InitMix ==
    /\ Constructed(MixStart, MixConfig)
    /\ NoDesk
    /\ probe = <<>> /\ many = <<>> /\ worker = <<>> /\ setlog = <<>>
    /\ sessions = [a \in {"music"} |-> [present |-> TRUE, volume |-> FULL]]

\* start and end exchanged
FadeVolume_Reversed(start, end, i) == Clamp(end * STEPS + ((start - end * STEPS) * i) \div STEPS)

\* current_volume = start_volume + (volume_step * i), clamped, for a start volume
\* that was probed (in 1/STEPS of a hundredth) and an end volume in hundredths;
\* exact for i = 0 and i = steps, rounded down to the unit in between
FadeVolume(start, end, i) == Clamp(start + ((end * STEPS - start) * i) \div STEPS)

\* one turn of: for i in range(steps + 1), in one of the fade threads
FadeStep ==
    /\ \E k \in 1..Len(fades) :
          /\ fades[k].state = "run"
          /\ LET w == fades[k]
                 v == FadeVolume(w.start, w.end, w.i)
             IN  \E ok \in SetOutcomes(sessions, w.app) :
                    /\ sessions' = IF ok THEN [sessions EXCEPT ![w.app].volume = v]
                                   ELSE sessions
                    /\ fades' = [j \in 1..Len(fades) |->
                                    IF j = k
                                    THEN [w EXCEPT !.i = @ + 1,
                                                   !.set = IF ok THEN w.i ELSE @,
                                                   !.state = AfterSet(ok, w.i),
                                                   !.failed = ~ok,
                                                   !.latest = ok \/ @]
                                    ELSE IF ok /\ fades[j].app = w.app
                                         THEN [fades[j] EXCEPT !.latest = FALSE]
                                         ELSE fades[j]]
    /\ UNCHANGED <<core, provider_ok, desk, probe, many, worker, setlog>>

NextMix ==
    \/ LoopStart
    \/ LoopWhile
    \/ Tick
    \/ FadeStep

SpecMix == InitMix /\ [][NextMix]_vars

\* Every fade thread that can make a turn of its for loop eventually makes one:
\* fade_worker has no wait but its time.sleep(step_duration).
SpecMixFair == SpecMix /\ WF_vars(FadeStep)

\* ------------------------- one duck_music / restore_music with its fades
\* The applications with an audio session: a priority app and two music apps.
CallApps == {"game", "music", "player"}

\* What get_config() can return: the music apps in either order, an entry to
\* skip, and a snapshot in which the priority app is in the music list as well.
CallConfigs ==
    {[BaseConfig EXCEPT !.music_apps = List(l)] :
        l \in {<<"music", "player">>, <<"player", "music">>, <<"", "player">>,
               <<"game", "music">>}}

\* The sessions when the method is called: the priority app at half volume, the
\* music apps absent, silent or at half volume, or playing at full volume.
CallSessions ==
    {ss \in [CallApps -> SessionStates \cup {[present |-> TRUE, volume |-> FULL]}] :
        /\ ss["game"] = [present |-> TRUE, volume |-> FULL \div 2]
        /\ ss["music"].present
        /\ ss["player"].volume # FULL \div 2}

\* duck_music() or restore_music() about to be called, by the loop, by stop() or
\* by force_duck() / force_restore().
InitCall ==
    /\ \E config \in CallConfigs : Constructed(0, config)
    /\ NoDesk
    /\ many = <<>> /\ worker = <<>> /\ setlog = <<>>
    /\ sessions \in CallSessions
    /\ probe \in [op : {"duck_music", "restore_music"}, done : {FALSE},
                   priority_apps : {<<>>}, music_apps : {<<>>}, before : {<<>>}]

\* The call: the configuration is read and the fades are started. The lists of
\* the configuration read and the sessions found are kept for reference.
ApplyCall ==
    /\ ~probe.done
    /\ Trigger(IF probe.op = "duck_music" THEN duck_music(cfg) ELSE restore_music(cfg))
    /\ probe' = [probe EXCEPT !.done = TRUE,
                              !.priority_apps = cfg.priority_apps.val,
                              !.music_apps = cfg.music_apps.val,
                              !.before = sessions]
    /\ UNCHANGED <<manager, now, cfg, pc, restore_delay, heard, last_heard, stop_log,
                   stop_ducked, tick_fade, force_log, tick_queries, last_trigger,
                   provider_ok, desk, audio>>

\* The UI changes what get_config() returns, at any moment.
ProviderChange ==
    /\ \E config \in CallConfigs : cfg' = config
    /\ cfg' # cfg
    /\ UNCHANGED <<manager, now, pc, restore_delay, ghosts, fades, provider_ok, desk, probe,
                   audio>>

NextCall == ApplyCall \/ FadeStep \/ ProviderChange

SpecCall == InitCall /\ [][NextCall]_vars

\* ------------------------------------------------- the session accessors
\* What the OS layer does during one call: it works, AudioUtilities.GetAllSessions()
\* raises, or the call on a session found (QueryInterface, GetPeakValue,
\* GetMasterVolume, SetMasterVolume) raises.
OSModes == {"ok", "enum_raises", "query_raises"}

\* A session with its peak meter.
MeteredSessions ==
    {[present |-> FALSE, volume |-> 0, peak |-> 0],
     [present |-> TRUE, volume |-> FULL \div 2, peak |-> 0],
     [present |-> TRUE, volume |-> FULL \div 2, peak |-> MaxPeak]}

\* What a call gives its caller: a value, or an exception.
Returned(v) == [raised |-> FALSE, value |-> v]
Raised == [raised |-> TRUE, value |-> "exception"]

\* The call on the session raises only if a session of that name is found.
QueryRaises(os, ss, app) == os = "query_raises" /\ ss[app].present

\* list_audio_apps: no try / except around GetAllSessions() and Process.name()
list_audio_apps(os, ss) ==
    IF os = "enum_raises" THEN Raised
    ELSE Returned({a \in DOMAIN ss : ss[a].present})

\* get_app_peak_volume: try ... except Exception: (print); return 0.0
get_app_peak_volume(os, ss, app) ==
    IF os = "enum_raises" \/ QueryRaises(os, ss, app) THEN Returned(0)
    ELSE Returned(IF ss[app].present THEN ss[app].peak ELSE 0)

\* get_app_current_volume with the OS layer failing: except Exception: return 0.0
current_volume(os, ss, app) ==
    IF os = "enum_raises" \/ QueryRaises(os, ss, app) THEN Returned(0)
    ELSE Returned(get_app_current_volume(ss, app))

\* set_app_volume: True once SetMasterVolume has returned, else False
set_app_volume(os, ss, app) ==
    Returned(os = "ok" /\ ss[app].present)

\* the sessions after set_app_volume(app, volume)
SetVolume(os, ss, app, volume) ==
    IF set_app_volume(os, ss, app).value THEN [ss EXCEPT ![app].volume = volume] ELSE ss

\* set_multiple_apps_volume: success_count over the names
RECURSIVE set_multiple_apps_volume(_, _, _)
set_multiple_apps_volume(os, ss, names) ==
    IF names = <<>> THEN 0
    ELSE (IF set_app_volume(os, ss, Head(names)).value THEN 1 ELSE 0)
         + set_multiple_apps_volume(os, ss, Tail(names))

RECURSIVE SetVolumes(_, _, _, _)
SetVolumes(os, ss, names, volume) ==
    IF names = <<>> THEN ss
    ELSE SetVolumes(os, SetVolume(os, ss, Head(names), volume), Tail(names), volume)

InitAccessor ==
    /\ Parked
    /\ NoDesk
    /\ many = <<>> /\ worker = <<>> /\ setlog = <<>>
    /\ sessions \in [MusicApps -> MeteredSessions]
    /\ probe \in [op : {"-"}, os : OSModes, names : NameLists \ {<<>>},
                   volume : {0, FULL}, result : {Returned(0)}, done : {FALSE}]

\* The call made: its name and what it gave.
Called(op, result) == probe' = [probe EXCEPT !.op = op, !.result = result, !.done = TRUE]

CallList ==
    /\ ~probe.done
    /\ Called("list_audio_apps", list_audio_apps(probe.os, sessions))
    /\ UNCHANGED <<engine, desk, audio>>

CallPeak ==
    /\ ~probe.done
    /\ Called("get_app_peak_volume", get_app_peak_volume(probe.os, sessions, probe.names[1]))
    /\ UNCHANGED <<engine, desk, audio>>

CallCurrent ==
    /\ ~probe.done
    /\ Called("get_app_current_volume", current_volume(probe.os, sessions, probe.names[1]))
    /\ UNCHANGED <<engine, desk, audio>>

CallSet ==
    /\ ~probe.done
    /\ Called("set_app_volume", set_app_volume(probe.os, sessions, probe.names[1]))
    /\ sessions' = SetVolume(probe.os, sessions, probe.names[1], probe.volume)
    /\ UNCHANGED <<engine, desk, many, worker, setlog>>

CallSetMany ==
    /\ ~probe.done
    /\ Called("set_multiple_apps_volume",
              Returned(set_multiple_apps_volume(probe.os, sessions, probe.names)))
    /\ sessions' = SetVolumes(probe.os, sessions, probe.names, probe.volume)
    /\ UNCHANGED <<engine, desk, many, worker, setlog>>

NextAccessor == CallList \/ CallPeak \/ CallCurrent \/ CallSet \/ CallSetMany

SpecAccessor == InitAccessor /\ [][NextAccessor]_vars

\* ------------------------------------------------------------------ claims
\* The UI thread has called stop() (on_closing), whether or not it has returned.
StopCalled == pc["ui"] \in {"stop", "stop_check", "stop_restore", "stop_set", "closed"}

\* The loop thread has finished the decision of a tick and is about to sleep.
TickEnd == pc["loop"] = "sleep"

\* C1: on a tick of the running loop (no stop() called) whose sample holds a
\* valid priority app strictly above the threshold, is_ducked is true when the
\* tick ends, whether it was already true or the tick ducked.
C1_DuckedByTickEnd == (TickEnd /\ heard /\ ~StopCalled) => is_ducked

\* C1 witness: a tick that heard priority audio has just ducked.
C1_Witness ==
    /\ TickEnd /\ heard /\ ~StopCalled /\ is_ducked
    /\ last_fade.kind = "duck" /\ last_priority_time = now /\ now > 1

\* C2: on a quiet tick of the running loop at which more than restore_delay has
\* passed since the latest tick that heard priority audio (not since loop
\* start), is_ducked is false when the tick ends.
C2_RestoredAfterDelay ==
    (TickEnd /\ ~heard /\ ~StopCalled /\ last_heard >= 0
        /\ restore_delay.ty = "num" /\ now - last_heard > restore_delay.val) => ~is_ducked

\* C2 witness: the restore came on a tick later than the first, after a delay of 1 s
\* counted from a sample heard after loop start.
C2_Witness ==
    /\ TickEnd /\ ~heard /\ ~StopCalled /\ ~is_ducked
    /\ last_heard >= TICK /\ restore_delay = Num(10) /\ now - last_heard > 10
    /\ last_fade.kind = "restore"

\* C3: the restore delay is a debounce. A tick that hears priority audio sets
\* last_priority_time to now, and the loop reaches its restore (restore_music, then
\* is_ducked = False) only on a quiet tick at which more than restore_delay has
\* passed since the latest tick that heard priority audio.
C3_Debounce ==
    /\ (pc["loop"] \in {"duck", "set_ducked", "sleep"} /\ heard)
          => last_priority_time = now
    /\ pc["loop"] \in {"restore", "set_restored"}
          => (~heard /\ last_heard >= 0 /\ restore_delay.ty = "num"
                /\ now - last_heard > restore_delay.val)

\* C3 witness: the loop is about to restore after a quiet period longer than 1 s.
C3_Witness ==
    /\ pc["loop"] = "restore" /\ ~heard /\ restore_delay = Num(10)
    /\ now - last_heard > 10 /\ is_ducked

\* The threshold in force: the configured one when it is a number above 0, else 0.01.
C4_Threshold(config) ==
    IF "peak_threshold" \in DOMAIN config /\ config.peak_threshold.ty = "num"
          /\ config.peak_threshold.val > 0
    THEN config.peak_threshold.val ELSE 1

\* C4: check_priority_audio returns true exactly when the priority list is a list
\* holding some non-empty str whose peak is strictly above the threshold in force;
\* "" and non-str entries are skipped, an empty or missing list gives false, a peak
\* equal to the threshold does not count.
C4_CheckIsStrictOr ==
    probe.done =>
        (probe.result <=>
            /\ "priority_apps" \in DOMAIN probe.config
            /\ probe.config.priority_apps.ty = "list"
            /\ \E i \in 1..Len(probe.config.priority_apps.val) :
                  LET name == probe.config.priority_apps.val[i]
                  IN  /\ name \in CheckApps
                      /\ probe.pk[name] > C4_Threshold(probe.config))

\* C4 witness: the first entry is skipped, the second one decides; the other
\* application peaks exactly at the threshold.
C4_Witness ==
    /\ probe.done /\ probe.result
    /\ "priority_apps" \in DOMAIN probe.config
    /\ probe.config.priority_apps = List(<<"", "voice">>)
    /\ "peak_threshold" \in DOMAIN probe.config
    /\ probe.config.peak_threshold = Num(1)
    /\ probe.pk = [a \in CheckApps |-> IF a = "voice" THEN 2 ELSE 1]

\* stop() has returned on the UI thread and the monitor-loop thread has ended.
ShutDown == pc["ui"] = "closed" /\ pc["loop"] = "done"

\* The configured music list is one restore_music() would fade.
HasMusic == restore_music(cfg).kind = "restore"

\* C5: once stop() has returned and the loop thread has terminated, is_ducked is
\* false and the latest fade triggered on the music apps is a restore, never a
\* duck (taken with a music list that is not empty at shutdown).
C5_NeverLeftDucked ==
    (ShutDown /\ HasMusic) => (~is_ducked /\ last_fade.kind # "duck")

\* The steps of a tick the claim names: the priority check, a duck or restore
\* trigger, a write of is_ducked or last_priority_time.
TickAction ==
    \/ LoopCheck \/ LoopActive \/ LoopDuck \/ LoopSetDucked
    \/ LoopRestore \/ LoopSetRestored

\* C6: after stop() has returned to the UI thread, the loop thread performs no
\* further tick action.
C6_LoopHaltedOnReturn == [][pc["ui"] = "closed" => ~TickAction]_vars

\* The stop() calls that triggered a restore fade.
StopRestores == {t \in Threads : stop_log[t].fade = "restored"}

\* C7: when stop() was called while the loop was running and is_ducked true (the
\* music list not empty), the caller's stop() and the loop's own stop() trigger
\* exactly one restore fade between them.
C7_RestoredExactlyOnce ==
    (ShutDown /\ stop_ducked /\ HasMusic) => Cardinality(StopRestores) = 1

\* C8 as stated: when stop() is called while is_ducked is true, nobody sees
\* _running false before that stop() has triggered its restore.
C8_RestoreBeforeNotRunning ==
    (stop_ducked /\ HasMusic /\ pc["ui"] \in {"stop_check", "stop_restore"}) => running

\* C8 amended: a stop() call triggers its restore only after it has assigned
\* _running = False, and a stop() that found is_ducked true has called
\* restore_music() by the time it returns.
C8_ClearedBeforeRestore ==
    \A t \in Threads :
        /\ (pc[t] \in {"stop_restore", "stop_set"} \/ stop_log[t].fade # "-")
              => stop_log[t].cleared
        /\ (pc[t] = StopReturn(t) /\ stop_log[t].saw = "ducked")
              => stop_log[t].fade # "-"

\* C8 witness: the UI's stop(), called while ducked, has cleared _running and
\* has not yet triggered its restore.
C8_Witness ==
    /\ stop_ducked /\ pc["ui"] = "stop_restore" /\ ~running
    /\ stop_log["ui"].cleared /\ stop_log["ui"].fade = "-" /\ HasMusic

C10_StoppedAfterStop == pc["ui"] = "closed" => ~running

\* A step of force_duck() or force_restore().
ForceStep == ForceDuckCheck \/ ForceDuckFade \/ ForceRestoreCheck \/ ForceRestoreFade

\* C11: force_duck() that finds is_ducked false, and force_restore() that finds
\* is_ducked true, return at once: duck_music / restore_music is not entered (no
\* configuration query, no fade, no set_app_volume), and is_ducked, _running,
\* last_priority_time, the configuration and the latest fade request are unchanged.
C11_MismatchIsNoOp ==
    [][((ForceDuckCheck /\ ~is_ducked) \/ (ForceRestoreCheck /\ is_ducked))
          => (pc'["ui"] = "idle" /\ UNCHANGED <<manager, cfg, last_fade>>)]_vars

\* C11 witness: force_duck(), called by update_config() which had read is_ducked
\* true, found it false and returned without a fade.
C11_Witness ==
    /\ pc["ui"] = "idle" /\ force_log = [op |-> "force_duck", saw |-> "normal", fade |-> "-"]
    /\ ~is_ducked /\ last_fade.kind = "restore"

\* C12: no step of force_duck() / force_restore() changes is_ducked, _running or
\* last_priority_time; force_duck() that finds is_ducked true goes on to duck_music(),
\* whose fade goes to the volume_ducked of the configuration at that moment, and
\* force_restore() that finds is_ducked false goes on to restore_music(), whose fade
\* goes to the volume_normal of the configuration at that moment.
C12_ForceReapplies ==
    [][/\ ForceStep => UNCHANGED manager
       /\ (ForceDuckCheck /\ is_ducked) => pc'["ui"] = "force_duck_fade"
       /\ (ForceRestoreCheck /\ ~is_ducked) => pc'["ui"] = "force_restore_fade"
       /\ (ForceDuckFade /\ cfg.music_apps.val # <<>>)
             => (last_fade'.kind = "duck" /\ last_fade'.target = cfg.volume_ducked.val)
       /\ (ForceRestoreFade /\ cfg.music_apps.val # <<>>)
             => (last_fade'.kind = "restore" /\ last_fade'.target = cfg.volume_normal.val)]_vars

\* C12 witness: after the ducked volume was changed to 0.30 while ducked,
\* force_duck() has faded the music to 0.30 and is_ducked is still true.
C12_Witness ==
    /\ pc["ui"] = "idle" /\ force_log = [op |-> "force_duck", saw |-> "ducked", fade |-> "duck"]
    /\ is_ducked /\ last_fade.kind = "duck" /\ last_fade.target = 30

\* C13: the decision does not depend on the fade. At the end of a tick of the
\* running loop whose duck_music() call started no fade (no valid music app) or
\* whose fades set no volume (applications absent, set_app_volume refused),
\* is_ducked is true all the same; after a restore_music() call of that kind it
\* is false.
C13_DecisionIgnoresFade ==
    (TickEnd /\ ~StopCalled /\ tick_fade.outcome \in {"nolist", "failed"}) =>
        /\ tick_fade.kind = "duck" => is_ducked
        /\ tick_fade.kind = "restore" => ~is_ducked

\* C13 witness: a tick heard priority audio, its fade on the music application
\* set no volume, and is_ducked is true.
C13_Witness ==
    /\ TickEnd /\ ~StopCalled /\ heard /\ is_ducked
    /\ tick_fade = [kind |-> "duck", outcome |-> "failed"]

\* The names of a fade_multiple_apps_volume call that have a session.
C14_Present == {k \in 1..Len(many.names) : sessions[many.names[k]].present}

\* C14: fade_multiple_apps_volume starts a fade only for names whose session is
\* present and returns the number of fades started; with no session present it
\* starts none and returns 0.
C14_StartsOnlyPresent ==
    many.returned =>
        /\ many.success_count = Cardinality(C14_Present)
        /\ Len(many.started) = many.success_count
        /\ \A k \in 1..Len(many.started) : sessions[many.started[k].app].present

\* The value of step i in exact arithmetic, in 1/20 of a hundredth, kept in [0, 1].
C15_Expected(i) ==
    LET raw == worker.start * 20 + (worker.end - worker.start) * i
    IN  IF raw < 0 THEN 0 ELSE IF raw > 2000 THEN 2000 ELSE raw

\* A volume in hundredths kept in [0, 1].
C15_Clamped(v) == IF v < 0 THEN 0 ELSE IF v > 100 THEN 100 ELSE v

\* C15: the k-th set_app_volume call of a fade is for i = k - 1 with the value
\* clamp(start + (end - start) * i / 20), so every value lies in [0, 1]; a fade
\* whose calls all succeed makes 21 of them, the first with clamp(start) and the
\* last with clamp(end).
C15_FadeValues ==
    /\ \A k \in 1..Len(setlog) :
          /\ setlog[k].i = k - 1
          /\ setlog[k].volume = C15_Expected(k - 1)
          /\ setlog[k].volume >= 0 /\ setlog[k].volume <= 2000
    /\ (worker.state = "done" /\ \A k \in 1..Len(setlog) : setlog[k].ok)
          => /\ Len(setlog) = 21
             /\ setlog[1].volume = 20 * C15_Clamped(worker.start)
             /\ setlog[21].volume = 20 * C15_Clamped(worker.end)

\* C15 witness: a fade from 1.5 to 0.15 has made its 21 calls, all accepted; the
\* first values were clamped to 1.0 and the session is at 0.15.
C15_Witness ==
    /\ worker.state = "done" /\ Len(setlog) = 21
    /\ \A k \in 1..Len(setlog) : setlog[k].ok
    /\ worker.start = 150 /\ worker.end = 15
    /\ setlog[1].volume = 2000 /\ sessions["music"].volume = 300

\* The calls of the fade that set_app_volume accepted.
C16_Accepted == {k \in 1..Len(setlog) : setlog[k].ok}

\* C16: a refused set_app_volume ends the fade: it is the last call of the thread
\* (no later step, no retry), the thread has terminated, and the session's volume
\* is the one the last accepted call set, or the one found if none was accepted.
C16_AbortOnFailure ==
    /\ \A k \in 1..(Len(setlog) - 1) : setlog[k].ok
    /\ (setlog # <<>> /\ ~setlog[Len(setlog)].ok) => worker.state = "done"
    /\ sessions[worker.app].volume =
          IF C16_Accepted = {} THEN worker.before
          ELSE setlog[CHOOSE k \in C16_Accepted : \A j \in C16_Accepted : j <= k].volume

\* C16 witness: the fourth call of a fade from 1.0 to 0.15 was refused; the thread
\* has ended and the session is left where the third call put it.
C16_Witness ==
    /\ worker.state = "done" /\ Len(setlog) = 4 /\ ~setlog[4].ok
    /\ worker.start = 100 /\ worker.end = 15 /\ worker.before = 1000
    /\ sessions["music"].volume = setlog[3].volume /\ setlog[3].volume = 1830

\* C17: no accessor call raises to its caller; when the session is absent or the
\* OS layer fails, get_app_peak_volume and get_app_current_volume give 0.0 and
\* set_app_volume gives false.
C17_AccessorsNeverRaise ==
    probe.done =>
        /\ ~probe.result.raised
        /\ (probe.os # "ok" \/ ~sessions[probe.names[1]].present) =>
              /\ probe.op \in {"get_app_peak_volume", "get_app_current_volume"}
                    => probe.result.value = 0
              /\ probe.op = "set_app_volume" => probe.result.value = FALSE

\* The configuration of the call holds a number outside [0, 1] under `key`.
C18_OutOfRange(key) ==
    /\ key \in DOMAIN probe.config /\ probe.config[key].ty = "num"
    /\ (probe.config[key].val < 0 \/ probe.config[key].val > 100)

\* The configuration of the call has a music list with a valid name.
C18_HasMusic ==
    /\ "music_apps" \in DOMAIN probe.config /\ probe.config.music_apps.ty = "list"
    /\ \E i \in 1..Len(probe.config.music_apps.val) :
          probe.config.music_apps.val[i] \notin {"", NONE}

\* C18: with a volume_ducked outside [0, 1], duck_music() fades to the default the
\* configuration layer defines for volume_ducked (DEFAULT_CONFIG, 0.15); with a
\* volume_normal outside [0, 1], restore_music() fades to the one it defines for
\* volume_normal (1.0).
C18_TargetIsConfigDefault ==
    (probe.done /\ C18_HasMusic) =>
        /\ (probe.op = "duck_music" /\ C18_OutOfRange("volume_ducked"))
              => (probe.result.kind = "duck" /\ probe.result.target = CONFIG_VOLUME_DUCKED)
        /\ (probe.op = "restore_music" /\ C18_OutOfRange("volume_normal"))
              => (probe.result.kind = "restore" /\ probe.result.target = CONFIG_VOLUME_NORMAL)

\* The delay the loop would use if it replaced a delay outside [0.1, 60] (or not
\* a number) by the default of 3.0 s.
C19_EffectiveDelay ==
    IF restore_delay.ty = "num" /\ restore_delay.val >= 1 /\ restore_delay.val <= 600
    THEN restore_delay.val ELSE 30

\* C19: the loop restores only when the quiet time exceeds the delay in force,
\* which is the default when the supplied delay is outside [0.1, 60]; with a
\* supplied delay of 0 there is no restore before the default delay has elapsed.
C19_DelayValidated ==
    pc["loop"] \in {"restore", "set_restored"} => now - last_heard > C19_EffectiveDelay

\* The loop thread has left its while and is in, or past, its final stop().
LoopEnded == pc["loop"] \in {"stop", "stop_check", "stop_restore", "stop_set", "done"}

\* C20: whatever the configuration holds, the loop goes on ticking: it leaves its
\* while only after stop() was called from outside.
C20_NeverHaltsOnConfig == LoopEnded => StopCalled

\* C21: a failure raised inside a tick (here by the Config Provider) leads to an
\* orderly stop: monitor_loop returns instead of dying on an exception, with
\* _running false and is_ducked false, also when the provider fails again during
\* the final restore.
C21_OrderlyStop ==
    pc["loop"] \in {"done", "crashed"} =>
        (pc["loop"] = "done" /\ ~running /\ ~is_ducked)

\* C22: on a tick with priority activity that finds is_ducked true, the loop only
\* refreshes last_priority_time and goes to sleep: it asks for no fade and leaves
\* is_ducked alone. The loop calls duck_music() only with is_ducked false, and
\* sets it true right after, so that there is one duck fade request (for the
\* whole music list) per change from not ducked to ducked.
C22_NoDuckWhileDucked ==
    [][/\ (LoopActive /\ is_ducked) =>
              /\ pc'["loop"] = "sleep"
              /\ last_priority_time' = now
              /\ UNCHANGED <<is_ducked, last_fade, last_trigger, tick_fade>>
       /\ LoopDuck =>
              /\ ~is_ducked
              /\ pc'["loop"] = "set_ducked"
              /\ last_fade' = IF HasMusic THEN duck_music(cfg) ELSE last_fade
              /\ HasMusic => last_fade'.apps = ValidApps(cfg.music_apps.val)
       /\ LoopSetDucked => is_ducked']_vars

\* An active tick of an already ducked loop has ended: no fade was asked for in
\* it, and the timestamp is the tick's.
C22_Witness ==
    /\ TickEnd /\ heard /\ is_ducked
    /\ tick_fade = NoCall
    /\ last_priority_time = now
    /\ last_trigger = "duck"
    /\ now > TICK

\* A step executed on the UI thread.
UIStep == pc'["ui"] # pc["ui"]

\* C23: is_ducked and last_priority_time are written by the monitor thread only:
\* no step of the UI thread (its stop(), force_duck(), force_restore()) changes
\* either of them.
C23_OnlyLoopMutates ==
    [][UIStep => UNCHANGED <<is_ducked, last_priority_time>>]_vars

\* No step of get_status() changes is_ducked, _running or last_priority_time, and
\* none asks for a fade.
C24_ReadOnly == [][get_status => UNCHANGED <<manager, last_fade, fades, cfg>>]_vars

\* C24: the dict get_status() returns is a snapshot: its time_since_last_priority
\* is the time of the call minus its last_priority_time, and is not negative.
C24_Snapshot ==
    status.at = "returned" =>
        /\ status.time_since_last_priority = status.clock - status.last_priority_time
        /\ status.time_since_last_priority >= 0

\* C25: the loop thread calls get_config() once per tick.
C25_OneQueryPerTick == tick_queries <= 1

\* No fade thread is running.
Quiescent == \A k \in 1..Len(fades) : fades[k].state = "done"

\* The volume that matches is_ducked under the configuration.
Target(ducked) ==
    (IF ducked THEN duck_music(cfg).target ELSE restore_music(cfg).target) * STEPS

OffTarget == sessions["music"].volume # Target(is_ducked)

\* C26: a tick that finds no fade in flight and the music app's volume off the
\* target matching is_ducked issues a fresh fade to that target, without a
\* change of is_ducked: a duck fade on an active tick while ducked, a restore
\* fade on a quiet tick while not ducked.
C26_Reconverges ==
    [][/\ (LoopActive /\ is_ducked /\ Quiescent /\ OffTarget) => pc'["loop"] = "duck"
       /\ (LoopQuiet /\ ~is_ducked /\ Quiescent /\ OffTarget) => pc'["loop"] = "restore"]_vars

\* After validation at load and after every click, no application has both of its
\* boxes ticked.
C27_BoxesExclusive == \A a \in BoxApps : ~(app_vars[a].p /\ app_vars[a].m)

\* C27: in every configuration get_config() returns to the monitor thread, no
\* application is in both priority_apps and music_apps.
C27_SnapshotDisjoint ==
    snapshot.at = "returned" => snapshot.priority_apps \cap snapshot.music_apps = {}

\* C28: fades of one music app are not coordinated: once all of them have ended,
\* the volume is the one set by the thread whose set_app_volume came last, its
\* end volume if no call of that thread was refused, whatever is_ducked says.
C28_LastWriterWins ==
    Quiescent =>
        \A k \in 1..Len(fades) :
            fades[k].latest =>
                /\ sessions[fades[k].app].volume
                       = FadeVolume(fades[k].start, fades[k].end, fades[k].set)
                /\ ~fades[k].failed =>
                       sessions[fades[k].app].volume = fades[k].end * STEPS

\* A duck fade and the restore fade triggered after it have both run to their
\* end, the duck fade's last call came last: the loop rests not ducked with the
\* music app at volume_ducked.
C28_Witness ==
    /\ Quiescent /\ Len(fades) = 2
    /\ fades[1].kind = "duck" /\ fades[2].kind = "restore"
    /\ ~fades[1].failed /\ ~fades[2].failed
    /\ fades[1].latest
    /\ fades[2].start < FULL /\ fades[2].start > CONFIG_VOLUME_DUCKED * STEPS
    /\ ~is_ducked /\ TickEnd
    /\ sessions["music"].volume = CONFIG_VOLUME_DUCKED * STEPS

\* C29: a fade starts from the probed volume of the first valid music app when
\* that volume is positive; when the probe gives 0.0 (no session, or an error)
\* a duck fade starts from 1.0 and a restore fade from 0.2.
C29_AssumedStart ==
    (probe.done /\ probe.result.kind # "none") =>
        LET current_vol == get_app_current_volume(sessions, probe.result.apps[1])
        IN  probe.start = IF current_vol > 0 THEN current_vol
                          ELSE IF probe.op = "duck_music" THEN FULL
                          ELSE DEFAULT_VOLUME_DUCKED * STEPS

\* A call of duck_music() by the loop; a call of restore_music() by the loop or
\* by stop() on either thread.
DuckTrigger == LoopDuck
RestoreTrigger == LoopRestore \/ StopRestore("loop") \/ StopRestore("ui")

\* C30: duck and restore triggers alternate, starting with a duck: a restore is
\* triggered only when the latest trigger was a duck, a duck only when it was
\* not, the restore of stop() counted.
C30_TriggersAlternate ==
    [][/\ DuckTrigger => last_trigger # "duck"
       /\ RestoreTrigger => last_trigger = "duck"]_vars

\* C31: the fade of force_duck() / force_restore() never contradicts is_ducked
\* at the moment it is started: the duck fade of force_duck() starts with
\* is_ducked true, the restore fade of force_restore() with is_ducked false.
C31_ForceFadeMatchesState ==
    [][/\ (ForceDuckFade /\ duck_music(cfg).kind = "duck") => is_ducked
       /\ (ForceRestoreFade /\ restore_music(cfg).kind = "restore") => ~is_ducked]_vars

\* C35: a stop() whose first statement runs after another stop() has returned,
\* and that finds the state that one left (is_ducked false, _running false), asks
\* for no fade and changes neither flag, in any of its steps.
C35_StopIdempotent ==
    [][\A t \in Threads :
          (Stop(t) /\ stop_log'[t].second /\ ~is_ducked /\ ~running) =>
              /\ UNCHANGED <<manager, last_fade, fades, last_trigger>>
              /\ pc'[t] # "stop_restore"
              /\ ~is_ducked' /\ ~running']_vars

\* The loop has stopped by itself with a restore, then the window was closed: the
\* second stop() has returned, having found nothing to restore.
C35_Witness ==
    /\ pc["loop"] = "done" /\ stop_log["loop"].fade = "restored"
    /\ pc["ui"] = "closed" /\ stop_log["ui"].second
    /\ stop_log["ui"].saw = "normal" /\ stop_log["ui"].fade = "-"
    /\ ~is_ducked /\ ~running /\ last_fade.kind = "restore"

\* The elements of a list.
Range(l) == {l[k] : k \in 1..Len(l)}

\* Every fade thread is for a name of the music list read by the call.
C32_InMusicList ==
    \A k \in 1..Len(fades) : fades[k].app \in Range(probe.music_apps)

\* C32: every set_app_volume call is for a name of the music list of the
\* configuration read when the fade was triggered, and never for a priority app.
C32_OnlyMusicWritten ==
    \A k \in 1..Len(fades) :
        fades[k].i > 0 =>
            /\ fades[k].app \in Range(probe.music_apps)
            /\ fades[k].app \notin Range(probe.priority_apps)

\* The start volume of the call: the volume found for the first valid music app,
\* or the volume assumed in its place.
FirstAppStart ==
    LET first == ValidApps(probe.music_apps)[1]
        current_vol == get_app_current_volume(probe.before, first)
    IN  IF probe.op = "duck_music" THEN duck_start_volume(current_vol)
        ELSE restore_start_volume(current_vol)

\* C33: all the fades of one duck_music() / restore_music() start from the volume
\* probed or assumed for the first valid music app, so that the first accepted
\* set_app_volume of each thread puts its application at that volume, whatever
\* volume the application had.
C33_SharedStart ==
    \A k \in 1..Len(fades) :
        /\ fades[k].start = FirstAppStart
        /\ fades[k].set = 0 => sessions[fades[k].app].volume = FirstAppStart

\* The thread of the second music app has made its first call: the app is at the
\* first app's volume, which is not the volume it had.
C33_Witness ==
    /\ probe.done /\ Len(fades) = 2
    /\ fades[2].set = 0
    /\ probe.before[fades[2].app].present
    /\ probe.before[fades[2].app].volume # probe.before[fades[1].app].volume
    /\ probe.before[fades[1].app].volume > 0
    /\ sessions[fades[2].app].volume = probe.before[fades[1].app].volume

\* C34: a fade thread makes at most steps + 1 = 21 set_app_volume calls, accepted
\* or refused, and under fair scheduling every fade thread ends: once the loop
\* triggers no more, no fade is in flight any longer.
C34_FadesTerminate ==
    /\ [](\A k \in 1..Len(fades) : fades[k].i <= STEPS + 1)
    /\ <>[]Quiescent

\* The loop is in its next tick while the fade it started has not made its first
\* call: the tick did not wait for it.
C34_Witness ==
    /\ Len(fades) = 1 /\ fades[1].state = "run" /\ fades[1].i = 0
    /\ pc["loop"] = "check" /\ now > MixStart /\ is_ducked

====
